---- MODULE Spec2Model ----
(***************************************************************************)
(* The take-home thumbnail pipeline: startup_procedure (the orchestrator   *)
(* and its download tasks, take-home/src/networking.rs), the schedule      *)
(* extraction (mlb-client/src/types.rs) and the consumer main loop with    *)
(* its graphics state (take-home/src/main.rs, take-home/src/graphics.rs),  *)
(* composed over the one shared Arc<Mutex<NetworkState>>.                  *)
(*                                                                         *)
(* Every acquisition of the mutex is one atomic step.  The awaits of the   *)
(* orchestrator and of the download tasks (get_schedule_via_date,          *)
(* get_image, tokio::fs::write, join_all) are the points where the steps   *)
(* of the tasks and of the main thread interleave.  The display fields of  *)
(* an ItemMetadata (date, headline, subhead, blurb) and the layout fields  *)
(* of GfxState (shift, widths) never reach the shared state and are left   *)
(* out.  Vec indices are 0-based as in the source; a Vec is a sequence, so *)
(* element i of the Vec is element i + 1 of the sequence.                  *)
(***************************************************************************)
EXTENDS Integers, Sequences, FiniteSets, TLC

\* Bounds of the model.
MaxGames == 2      \* games per date bucket of a schedule document
MaxBuckets == 2    \* date buckets per schedule document
MaxRuns == 2       \* runs of startup_procedure spawned by the main thread

VARIABLES
    network_state,        \* the NetworkState behind the Arc<Mutex<..>>
    orch,                 \* per run: position and locals of startup_procedure
    tasks,                \* per run: the download futures handed to join_all
    n_runs,               \* runs spawned so far (tokio::spawn in main)
    thumbnail_dir,        \* whether ./assets/thumbnails/ exists
    gfx_state,            \* the main thread's GfxState
    networking_complete,  \* main's flag
    date,                 \* main's date, in days from 2018-06-10
    main_pc               \* position of the main thread

vars == <<network_state, orch, tasks, n_runs, thumbnail_dir, gfx_state,
          networking_complete, date, main_pc>>

Runs == 1..MaxRuns

\* Option<T>: None is the empty sequence, Some(x) the one-element sequence.
None == <<>>
Some(x) == <<x>>

Last(s) == s[Len(s)]

(***************************************************************************)
(* networking.rs: constants and NetworkState                               *)
(***************************************************************************)
THUMBNAIL_PATH == "./assets/thumbnails/"
CANONICAL_RES == "684x385"
OTHER_RES == "1920x1080"

FetchingJson ==
    [tag |-> "FetchingJson", items |-> <<>>, paths |-> <<>>, err |-> ""]
FetchingImages(items, paths) ==
    [tag |-> "FetchingImages", items |-> items, paths |-> paths, err |-> ""]
Error(reason) ==
    [tag |-> "Error", items |-> <<>>, paths |-> <<>>, err |-> reason]
Done(items, paths) ==
    [tag |-> "Done", items |-> items, paths |-> paths, err |-> ""]

\* format!("{}{}.png", THUMBNAIL_PATH, id)
FilePath(id) == <<THUMBNAIL_PATH, id, ".png">>

(***************************************************************************)
(* mlb-client: the schedule document and its extraction                    *)
(***************************************************************************)
\* The cut maps a game's recap photo may carry: with or without the
\* resolution the pipeline downloads.
CutSets == {{OTHER_RES}, {CANONICAL_RES, OTHER_RES}}

CutSrc(pk, res) == <<"http://mlb/", pk, res>>

\* game_pk of the g-th game of bucket b (1-based): distinct within a document.
GamePk(b, g) == 100 * b + g

\* A Game: content.editorial is None or Some(cuts of recap.mlb.photo).
Game(pk, editorial) == [game_pk |-> pk, editorial |-> editorial]

Editorials == {None} \cup {Some([res \in c |-> "cut"]) : c \in CutSets}

\* A DateItem (bucket) at position b (1-based) with the given editorials.
DateItem(b, editorials) ==
    [g \in 1..Len(editorials) |-> Game(GamePk(b, g), editorials[g])]

\* The DateItems a document may hold at position b: up to MaxGames games,
\* each without editorial, or with one with either cut map.
DateItems(b) ==
    UNION {{DateItem(b, e) : e \in [1..n -> Editorials]} : n \in 0..MaxGames}

\* The DateItems a document may hold before its last one: no game, or
\* MaxGames games that all have an editorial with the canonical cut.
LeadingDateItems(b) ==
    {DateItem(b, <<>>),
     DateItem(b, [g \in 1..MaxGames |->
                    Some([res \in {CANONICAL_RES, OTHER_RES} |-> "cut"])])}

\* The documents of n buckets.
SchedulesOfLen(n) ==
    IF n = 0 THEN {<<>>}
    ELSE {[b \in 1..n |-> IF b < n THEN lead[b] ELSE last] :
            lead \in [1..(n - 1) -> UNION {LeadingDateItems(b) : b \in 1..n}],
            last \in DateItems(n)}

\* Whether every bucket of a document carries the game_pks of its position.
WellFormed(schedule) ==
    \A b \in 1..Len(schedule) :
        \A g \in 1..Len(schedule[b]) : schedule[b][g].game_pk = GamePk(b, g)

\* The Schedule documents get_schedule_via_date may return.
Schedules ==
    UNION {{s \in SchedulesOfLen(n) : WellFormed(s)} : n \in 0..MaxBuckets}

HasEditorial(game) == game.editorial # None

\* ItemMetadata { id, photos }: photos maps each resolution of the cuts to
\* the cut's src.
ToItemMetadata(game) ==
    [id |-> game.game_pk,
     photos |-> [res \in DOMAIN game.editorial[1] |-> CutSrc(game.game_pk, res)]]

RECURSIVE FilterMapGamesReversed(_)
\* A filter_map that collects the games it keeps in reverse order.
FilterMapGamesReversed(games) ==
    IF games = <<>> THEN <<>>
    ELSE FilterMapGamesReversed(Tail(games))
         \o (IF HasEditorial(Head(games))
             THEN <<ToItemMetadata(Head(games))>> ELSE <<>>)

RECURSIVE FilterMapGames(_)
\* item.games.into_iter().filter_map(..).collect(): the games that have an
\* editorial, in order, each as its ItemMetadata.
FilterMapGames(games) ==
    IF games = <<>> THEN <<>>
    ELSE (IF HasEditorial(Head(games))
          THEN <<ToItemMetadata(Head(games))>> ELSE <<>>)
         \o FilterMapGames(Tail(games))

\* An extraction that also leaves out the buckets without an eligible game.
into_item_metadata_data_skips_empty(schedule) ==
    SelectSeq([b \in 1..Len(schedule) |-> FilterMapGames(schedule[b])],
              LAMBDA bucket : bucket # <<>>)

\* Schedule::into_item_metadata_data
into_item_metadata_data(schedule) ==
    [b \in 1..Len(schedule) |-> FilterMapGames(schedule[b])]

\* HashMap::get(key).cloned()
MapGet(m, key) == IF key \in DOMAIN m THEN Some(m[key]) ELSE None

\* image_urls: Vec<(u32, Option<String>)>
ImageUrl(item_metadata) ==
    <<item_metadata.id, MapGet(item_metadata.photos, CANONICAL_RES)>>

(***************************************************************************)
(* graphics.rs: GfxState                                                   *)
(***************************************************************************)
\* A texture: the blank one of create_texture_static, or one loaded from a
\* file.
StaticTexture == <<"static">>
LoadedTexture(image_path) == <<"loaded", image_path>>

\* GfxState::new
GfxNew ==
    [textures |-> None, n_games |-> 0, selection |-> 0, item_metadata |-> <<>>]

\* GfxState::reset
reset(gfx) ==
    [gfx EXCEPT !.textures = None, !.n_games = 0, !.selection = 0,
                !.item_metadata = <<>>]

\* GfxState::init, its effect on self
init(gfx, item_metadatas) ==
    IF gfx.textures = None
    THEN [gfx EXCEPT
            !.textures = Some([k \in 1..Len(item_metadatas) |-> StaticTexture]),
            !.n_games = Len(item_metadatas),
            !.item_metadata = @ \o item_metadatas]
    ELSE gfx

\* GfxState::init, its effect on the Vec it is handed: Vec::append moves
\* every element out of it.
init_taken(gfx, item_metadatas) ==
    IF gfx.textures = None THEN <<>> ELSE item_metadatas

RECURSIVE LoadTextures(_, _)
\* The loop of GfxState::drain_images over entries whose texture loads and
\* whose index is in bounds.
LoadTextures(textures, entries) ==
    IF entries = <<>> THEN textures
    ELSE LoadTextures(
            [textures EXCEPT ![Head(entries)[1] + 1] = LoadedTexture(Head(entries)[2])],
            Tail(entries))

\* The entries among the first n of image_paths whose index is out of the
\* bounds of textures (textures[i] panics there).
OutOfBounds(textures, image_paths, n) ==
    {k \in 1..n : image_paths[k][1] >= Len(textures)}

Min(S) == CHOOSE x \in S : \A y \in S : x <= y

\* GfxState::drain_images when load_texture succeeds for exactly the first n
\* entries: the textures afterwards.  The loop stops at the first entry whose
\* index is out of bounds (panic) and at entry n + 1 (Err).
drain_images(gfx, image_paths, n) ==
    LET textures == gfx.textures[1]
        oob == OutOfBounds(textures, image_paths, n)
        stop == IF oob = {} THEN n ELSE Min(oob) - 1
    IN  [gfx EXCEPT !.textures = Some(LoadTextures(textures, SubSeq(image_paths, 1, stop)))]

\* A drain that leaves behind the entries it did not get to.
drained_paths_keep_rest(image_paths, n) ==
    SubSeq(image_paths, n + 1, Len(image_paths))

\* A loop over image_paths.iter(): the entries stay where they are.
drained_paths_keeps_all(image_paths, n) == image_paths

\* image_paths after image_paths.drain(..) in GfxState::drain_images, when
\* load_texture succeeds for the first n entries: the Drain removes the
\* whole range when it is dropped, however the loop ends.
drained_paths(image_paths, n) == <<>>

\* How drain_images ends: "ok", "err" (load_texture failed, returned by ?) or
\* "panic" (index out of bounds).
drain_result(gfx, image_paths, n) ==
    IF OutOfBounds(gfx.textures[1], image_paths, n) # {} THEN "panic"
    ELSE IF n < Len(image_paths) THEN "err"
    ELSE "ok"

(***************************************************************************)
(* The state after main has spawned the first run (main.rs:81-104)         *)
(***************************************************************************)
Unspawned ==
    [pc |-> "unspawned", date |-> 0, schedule |-> None, image_urls |-> <<>>]
Spawned(d) ==
    [pc |-> "start", date |-> d, schedule |-> None, image_urls |-> <<>>]

\* startup_procedure has returned: its locals and futures are dropped.
Returned(d) ==
    [pc |-> "returned", date |-> d, schedule |-> None, image_urls |-> <<>>]

Init ==
    /\ network_state = FetchingJson
    /\ orch = [r \in Runs |-> IF r = 1 THEN Spawned(0) ELSE Unspawned]
    /\ tasks = [r \in Runs |-> <<>>]
    /\ n_runs = 1
    /\ thumbnail_dir \in BOOLEAN
    /\ gfx_state = GfxNew
    /\ networking_complete = FALSE
    /\ date = 0
    /\ main_pc = "mainloop"

\* The runtime lives as long as main: when main returns or panics the
\* process ends and no task takes another step.
ProcessAlive == main_pc \in {"mainloop", "load_texture"}

\* The holder of the mutex.  The orchestrator and the download tasks take
\* and release it within one step; the main thread keeps the guard of
\* main.rs:115 until the end of the match, through drain_images.
LockHolder == IF main_pc = "load_texture" THEN "main" ELSE "none"

\* state.lock() returns: the process is alive and nobody holds the mutex.
MutexFree == ProcessAlive /\ LockHolder = "none"

(***************************************************************************)
(* networking.rs: startup_procedure, the orchestrator                      *)
(***************************************************************************)
\* A start that goes on to the schedule fetch without creating the directory.
CreateThumbnailDirSkipped(r) ==
    /\ ProcessAlive
    /\ orch[r].pc = "start"
    /\ orch' = [orch EXCEPT ![r].pc = "get_schedule"]
    /\ UNCHANGED <<network_state, tasks, n_runs, thumbnail_dir, gfx_state,
                   networking_complete, date, main_pc>>

\* Lines 20-25: create the thumbnail directory if missing, then await the
\* schedule.
CreateThumbnailDir(r) ==
    /\ ProcessAlive
    /\ orch[r].pc = "start"
    /\ thumbnail_dir' = TRUE
    /\ orch' = [orch EXCEPT ![r].pc = "get_schedule"]
    /\ UNCHANGED <<network_state, tasks, n_runs, gfx_state,
                   networking_complete, date, main_pc>>

\* Line 22: create_dir_all(..).unwrap() on a failure: the task panics.
CreateThumbnailDirFails(r) ==
    /\ ProcessAlive
    /\ orch[r].pc = "start"
    /\ ~thumbnail_dir
    /\ orch' = [orch EXCEPT ![r].pc = "panicked"]
    /\ UNCHANGED <<network_state, tasks, n_runs, thumbnail_dir, gfx_state,
                   networking_complete, date, main_pc>>

\* A failed fetch that publishes Error and then fetches again.
GetScheduleErrRetries(r) ==
    /\ MutexFree
    /\ orch[r].pc = "get_schedule"
    /\ network_state' = Error("get_schedule_via_date failed")
    /\ UNCHANGED <<orch, tasks, n_runs, thumbnail_dir, gfx_state,
                   networking_complete, date, main_pc>>

\* Lines 25-29: the schedule fetch fails.
GetScheduleErr(r) ==
    /\ MutexFree
    /\ orch[r].pc = "get_schedule"
    /\ network_state' = Error("get_schedule_via_date failed")
    /\ orch' = [orch EXCEPT ![r] = Returned(orch[r].date)]
    /\ UNCHANGED <<tasks, n_runs, thumbnail_dir, gfx_state,
                   networking_complete, date, main_pc>>

\* A future that goes on to the download although it has no url.
NewTaskIgnoresMissingUrl(image_url) == [pc |-> "get_image", result |-> "none"]

\* The future of lines 58-84 for one (id, url), after its first poll by
\* join_all: without a url it has finished, with one it awaits get_image.
NewTask(image_url) ==
    IF image_url[2] = None
    THEN [pc |-> "done", result |-> "no_url"]
    ELSE [pc |-> "get_image", result |-> "none"]

\* Lines 25 and 30: the schedule fetch succeeds; schedule is bound to the
\* document received.
GetScheduleOk(r) ==
    /\ ProcessAlive
    /\ orch[r].pc = "get_schedule"
    /\ \E schedule \in Schedules :
         orch' = [orch EXCEPT ![r].pc = "extract", ![r].schedule = Some(schedule)]
    /\ UNCHANGED <<network_state, tasks, n_runs, thumbnail_dir, gfx_state,
                   networking_complete, date, main_pc>>

\* A pop that takes the first element.
PopFirst(vec) == IF vec = <<>> THEN None ELSE Some(Head(vec))

\* Vec::pop: the last element, or None of an empty Vec.
Pop(vec) == IF vec = <<>> THEN None ELSE Some(Last(vec))

\* Lines 32-58: extract (the schedule is moved into the extraction), pop,
\* and either publish Error and return, or publish FetchingImages and hand
\* one future per item to join_all.
Extract(r) ==
    /\ MutexFree
    /\ orch[r].pc = "extract"
    /\ LET item_metadata_data == into_item_metadata_data(orch[r].schedule[1])
           popped == Pop(item_metadata_data)
       IN  IF popped = None
           THEN /\ network_state' = Error("Missing item_metadata data")
                /\ orch' = [orch EXCEPT ![r] = Returned(orch[r].date)]
                /\ UNCHANGED tasks
           ELSE LET item_metadatas == popped[1]
                    image_urls == [k \in 1..Len(item_metadatas) |->
                                      ImageUrl(item_metadatas[k])]
                IN  /\ network_state' = FetchingImages(item_metadatas, <<>>)
                    /\ orch' = [orch EXCEPT ![r].pc = "join_all",
                                            ![r].schedule = None,
                                            ![r].image_urls = image_urls]
                    /\ tasks' = [tasks EXCEPT ![r] =
                                   [k \in 1..Len(image_urls) |-> NewTask(image_urls[k])]]
    /\ UNCHANGED <<n_runs, thumbnail_dir, gfx_state, networking_complete,
                   date, main_pc>>

\* The indices i of the futures of run r (enumerate()).
TaskIds(r) == {k - 1 : k \in DOMAIN tasks[r]}

Task(r, i) == tasks[r][i + 1]

TaskStep(r, i, pc, result) ==
    tasks' = [tasks EXCEPT ![r][i + 1] = [pc |-> pc, result |-> result]]

\* Lines 65-69: get_image returns Ok.
GetImageOk(r, i) ==
    /\ ProcessAlive
    /\ Task(r, i).pc = "get_image"
    /\ TaskStep(r, i, "write", "none")
    /\ UNCHANGED <<network_state, orch, n_runs, thumbnail_dir, gfx_state,
                   networking_complete, date, main_pc>>

\* A failed download after which the future never completes.
GetImageErrNeverCompletes(r, i) ==
    /\ ProcessAlive
    /\ Task(r, i).pc = "get_image"
    /\ TaskStep(r, i, "pending", "get_image_failed")
    /\ UNCHANGED <<network_state, orch, n_runs, thumbnail_dir, gfx_state,
                   networking_complete, date, main_pc>>

\* A failed download that puts the whole pipeline into Error.
GetImageErrAborts(r, i) ==
    /\ MutexFree
    /\ Task(r, i).pc = "get_image"
    /\ TaskStep(r, i, "done", "get_image_failed")
    /\ network_state' = Error("get_image failed")
    /\ UNCHANGED <<orch, n_runs, thumbnail_dir, gfx_state,
                   networking_complete, date, main_pc>>

\* Lines 65-69: get_image returns Err; the future finishes.
GetImageErr(r, i) ==
    /\ ProcessAlive
    /\ Task(r, i).pc = "get_image"
    /\ TaskStep(r, i, "done", "get_image_failed")
    /\ UNCHANGED <<network_state, orch, n_runs, thumbnail_dir, gfx_state,
                   networking_complete, date, main_pc>>

\* Line 73: tokio::fs::write returns Ok; it creates the file, not the
\* directory, so the directory is there.
WriteOk(r, i) ==
    /\ ProcessAlive
    /\ thumbnail_dir
    /\ Task(r, i).pc = "write"
    /\ TaskStep(r, i, "insert", "none")
    /\ UNCHANGED <<network_state, orch, n_runs, thumbnail_dir, gfx_state,
                   networking_complete, date, main_pc>>

\* A write whose failure is not looked at: the path is published all the same.
WriteErrPublishes(r, i) ==
    /\ MutexFree
    /\ Task(r, i).pc = "write"
    /\ TaskStep(r, i, "done", "write_failed")
    /\ network_state' =
         IF network_state.tag = "FetchingImages"
         THEN [network_state EXCEPT
                 !.paths = Append(@, <<i, FilePath(orch[r].image_urls[i + 1][1])>>)]
         ELSE network_state
    /\ UNCHANGED <<orch, n_runs, thumbnail_dir, gfx_state,
                   networking_complete, date, main_pc>>

\* Line 73: tokio::fs::write returns Err; the future finishes.
WriteErr(r, i) ==
    /\ ProcessAlive
    /\ Task(r, i).pc = "write"
    /\ TaskStep(r, i, "done", "write_failed")
    /\ UNCHANGED <<network_state, orch, n_runs, thumbnail_dir, gfx_state,
                   networking_complete, date, main_pc>>

\* An entry whose file is named after the index instead of the id.
ImagePathByIndex(r, i) == <<i, FilePath(i)>>

\* The entry future i of run r pushes: (i, file_path).
ImagePath(r, i) == <<i, FilePath(orch[r].image_urls[i + 1][1])>>

\* An insert that replaces image_paths by the one new entry.
InsertImageOverwrites(r, i) ==
    /\ MutexFree
    /\ Task(r, i).pc = "insert"
    /\ IF network_state.tag = "FetchingImages"
       THEN /\ network_state' = [network_state EXCEPT !.paths = <<ImagePath(r, i)>>]
            /\ TaskStep(r, i, "done", "pushed")
       ELSE /\ UNCHANGED network_state
            /\ TaskStep(r, i, "done", "dropped")
    /\ UNCHANGED <<orch, n_runs, thumbnail_dir, gfx_state,
                   networking_complete, date, main_pc>>

\* An insert after which the future is polled again and inserts again.
InsertImageRepeats(r, i) ==
    /\ MutexFree
    /\ Task(r, i).pc = "insert"
    /\ IF network_state.tag = "FetchingImages"
       THEN /\ network_state' = [network_state EXCEPT !.paths = Append(@, ImagePath(r, i))]
            /\ \/ TaskStep(r, i, "done", "pushed")
               \/ UNCHANGED tasks
       ELSE /\ UNCHANGED network_state
            /\ TaskStep(r, i, "done", "dropped")
    /\ UNCHANGED <<orch, n_runs, thumbnail_dir, gfx_state,
                   networking_complete, date, main_pc>>

\* An insert that loses the index of enumerate() and pushes index 0.
InsertImageIndexZero(r, i) ==
    /\ MutexFree
    /\ Task(r, i).pc = "insert"
    /\ IF network_state.tag = "FetchingImages"
       THEN /\ network_state' =
                 [network_state EXCEPT !.paths = Append(@, <<0, ImagePath(r, i)[2]>>)]
            /\ TaskStep(r, i, "done", "pushed")
       ELSE /\ UNCHANGED network_state
            /\ TaskStep(r, i, "done", "dropped")
    /\ UNCHANGED <<orch, n_runs, thumbnail_dir, gfx_state,
                   networking_complete, date, main_pc>>

\* An insert without the test of the variant: outside FetchingImages it
\* puts the state back to FetchingImages with its entry.
InsertImageUnconditional(r, i) ==
    /\ MutexFree
    /\ Task(r, i).pc = "insert"
    /\ network_state' =
         IF network_state.tag = "FetchingImages"
         THEN [network_state EXCEPT !.paths = Append(@, ImagePath(r, i))]
         ELSE FetchingImages(<<>>, <<ImagePath(r, i)>>)
    /\ TaskStep(r, i, "done", "pushed")
    /\ UNCHANGED <<orch, n_runs, thumbnail_dir, gfx_state,
                   networking_complete, date, main_pc>>

\* Lines 75-79: under the lock, push (i, file_path) if the state is
\* FetchingImages; otherwise nothing.
InsertImage(r, i) ==
    /\ MutexFree
    /\ Task(r, i).pc = "insert"
    /\ IF network_state.tag = "FetchingImages"
       THEN /\ network_state' =
                 [network_state EXCEPT !.paths = Append(@, ImagePath(r, i))]
            /\ TaskStep(r, i, "done", "pushed")
       ELSE /\ UNCHANGED network_state
            /\ TaskStep(r, i, "done", "dropped")
    /\ UNCHANGED <<orch, n_runs, thumbnail_dir, gfx_state,
                   networking_complete, date, main_pc>>

\* join_all is ready: every future has finished.
AllTasksDone(r) == \A i \in TaskIds(r) : Task(r, i).pc = "done"

\* A fan-in that does not wait for the futures.
JoinAllNoWait(r) ==
    /\ MutexFree
    /\ orch[r].pc = "join_all"
    /\ network_state' =
         IF network_state.tag = "FetchingImages"
         THEN Done(network_state.items, network_state.paths)
         ELSE Error("unexpected state transition")
    /\ orch' = [orch EXCEPT ![r].pc = "returned"]
    /\ UNCHANGED <<tasks, n_runs, thumbnail_dir, gfx_state,
                   networking_complete, date, main_pc>>

\* A fan-in that builds Done without the items of FetchingImages.
JoinAllDropsItems(r) ==
    /\ MutexFree
    /\ orch[r].pc = "join_all"
    /\ AllTasksDone(r)
    /\ network_state' =
         IF network_state.tag = "FetchingImages"
         THEN Done(<<>>, network_state.paths)
         ELSE Error("unexpected state transition")
    /\ orch' = [orch EXCEPT ![r] = Returned(orch[r].date)]
    /\ tasks' = [tasks EXCEPT ![r] = <<>>]
    /\ UNCHANGED <<n_runs, thumbnail_dir, gfx_state,
                   networking_complete, date, main_pc>>

\* A fan-in that publishes Done whatever state it finds.
JoinAllForcesDone(r) ==
    /\ MutexFree
    /\ orch[r].pc = "join_all"
    /\ AllTasksDone(r)
    /\ network_state' = Done(network_state.items, network_state.paths)
    /\ orch' = [orch EXCEPT ![r] = Returned(orch[r].date)]
    /\ tasks' = [tasks EXCEPT ![r] = <<>>]
    /\ UNCHANGED <<n_runs, thumbnail_dir, gfx_state,
                   networking_complete, date, main_pc>>

\* A fan-in that takes a run without results for a failed one.
JoinAllEmptyIsError(r) ==
    /\ MutexFree
    /\ orch[r].pc = "join_all"
    /\ AllTasksDone(r)
    /\ network_state' =
         IF network_state.tag = "FetchingImages" /\ tasks[r] # <<>>
         THEN Done(network_state.items, network_state.paths)
         ELSE Error("unexpected state transition")
    /\ orch' = [orch EXCEPT ![r] = Returned(orch[r].date)]
    /\ tasks' = [tasks EXCEPT ![r] = <<>>]
    /\ UNCHANGED <<n_runs, thumbnail_dir, gfx_state,
                   networking_complete, date, main_pc>>

\* Lines 85-97: after join_all, under the lock, FetchingImages becomes Done
\* with its two vectors; any other state becomes Error.  Then the function
\* returns.
JoinAll(r) ==
    /\ MutexFree
    /\ orch[r].pc = "join_all"
    /\ AllTasksDone(r)
    /\ network_state' =
         IF network_state.tag = "FetchingImages"
         THEN Done(network_state.items, network_state.paths)
         ELSE Error("unexpected state transition")
    /\ orch' = [orch EXCEPT ![r] = Returned(orch[r].date)]
    /\ tasks' = [tasks EXCEPT ![r] = <<>>]
    /\ UNCHANGED <<n_runs, thumbnail_dir, gfx_state,
                   networking_complete, date, main_pc>>

(***************************************************************************)
(* main.rs: the main loop                                                  *)
(***************************************************************************)
\* The main thread is in 'mainloop until it breaks out of it ("break"),
\* returns an Err by ? ("err") or panics ("panic").  Every iteration makes
\* one pass of "Drain values from networking state" and then handles the
\* events polled, any number of them, so passes and events follow each
\* other in any order.  Within a pass it is at "load_texture" while
\* drain_images loads the files of the entries it found.
\*
\* Lines 113-140: "Drain values from networking state", a pass up to the
\* first load_texture of drain_images.  Under the lock: init, and with no
\* entry to drain the pass is over; with entries the main thread goes on to
\* load their files, still holding the lock.
DrainValues ==
    /\ main_pc = "mainloop"
    /\ IF networking_complete
       THEN UNCHANGED <<network_state, gfx_state, networking_complete, main_pc>>
       ELSE CASE network_state.tag = "Error" ->
                   \* println!, break 'mainloop
                   /\ main_pc' = "break"
                   /\ UNCHANGED <<network_state, gfx_state, networking_complete>>
              [] network_state.tag = "FetchingJson" ->
                   \* the loading page
                   UNCHANGED <<network_state, gfx_state, networking_complete, main_pc>>
              [] network_state.tag \in {"FetchingImages", "Done"} ->
                   /\ gfx_state' = init(gfx_state, network_state.items)
                   /\ network_state' =
                        [network_state EXCEPT !.items = init_taken(gfx_state, @)]
                   /\ IF network_state.paths = <<>>
                      THEN /\ main_pc' = "mainloop"
                           /\ networking_complete' = (network_state.tag = "Done")
                      ELSE /\ main_pc' = "load_texture"
                           /\ UNCHANGED networking_complete
    /\ UNCHANGED <<orch, tasks, n_runs, thumbnail_dir, date>>

\* graphics.rs:144-150 within main.rs:131 and 136: the loop of drain_images
\* over the entries, load_texture reading each file from disk and succeeding
\* for the first n of them; then the end of the match, where the guard is
\* dropped.
DrainImages ==
    /\ main_pc = "load_texture"
    /\ \E n \in 0..Len(network_state.paths) :
         LET result == drain_result(gfx_state, network_state.paths, n)
         IN  /\ gfx_state' = drain_images(gfx_state, network_state.paths, n)
             /\ network_state' =
                  [network_state EXCEPT !.paths = drained_paths(@, n)]
             /\ main_pc' = IF result = "ok" THEN "mainloop" ELSE result
             /\ networking_complete' =
                  (result = "ok" /\ network_state.tag = "Done")
    /\ UNCHANGED <<orch, tasks, n_runs, thumbnail_dir, date>>

\* Lines 186-190: Quit or Escape, break 'mainloop.
Quit ==
    /\ main_pc = "mainloop"
    /\ main_pc' = "break"
    /\ UNCHANGED <<network_state, orch, tasks, n_runs, thumbnail_dir,
                   gfx_state, networking_complete, date>>

\* Lines 192-199 with GfxState::selection_right: under the lock only the
\* comparison with FetchingJson; the remainder by n_games = 0 panics.
KeyRight ==
    /\ main_pc = "mainloop"
    /\ IF network_state.tag # "FetchingJson"
       THEN IF gfx_state.n_games = 0
            THEN main_pc' = "panic" /\ UNCHANGED gfx_state
            ELSE /\ gfx_state' = [gfx_state EXCEPT
                                    !.selection = (@ + 1) % gfx_state.n_games]
                 /\ UNCHANGED main_pc
       ELSE UNCHANGED <<gfx_state, main_pc>>
    /\ UNCHANGED <<network_state, orch, tasks, n_runs, thumbnail_dir,
                   networking_complete, date>>

\* Lines 201-208 with GfxState::selection_left: n_games - 1 with
\* n_games = 0 overflows usize, a panic with overflow checks on (the dev
\* profile).
KeyLeft ==
    /\ main_pc = "mainloop"
    /\ IF network_state.tag # "FetchingJson"
       THEN IF gfx_state.n_games = 0
            THEN main_pc' = "panic" /\ UNCHANGED gfx_state
            ELSE /\ gfx_state' = [gfx_state EXCEPT
                                    !.selection = IF @ = 0 THEN gfx_state.n_games - 1
                                                  ELSE @ - 1]
                 /\ UNCHANGED main_pc
       ELSE UNCHANGED <<gfx_state, main_pc>>
    /\ UNCHANGED <<network_state, orch, tasks, n_runs, thumbnail_dir,
                   networking_complete, date>>

\* A restart that spawns the next run without resetting the graphics state.
StartRunKeepsGraphics(new_date) ==
    /\ n_runs < MaxRuns
    /\ network_state' = FetchingJson
    /\ networking_complete' = FALSE
    /\ date' = new_date
    /\ n_runs' = n_runs + 1
    /\ orch' = [orch EXCEPT ![n_runs + 1] = Spawned(new_date)]
    /\ UNCHANGED <<tasks, thumbnail_dir, main_pc, gfx_state>>

\* Lines 215-224 and 233-242: reset the graphics, force FetchingJson, clear
\* the flag, move the date and spawn the next run.
StartRun(new_date) ==
    /\ n_runs < MaxRuns
    /\ gfx_state' = reset(gfx_state)
    /\ network_state' = FetchingJson
    /\ networking_complete' = FALSE
    /\ date' = new_date
    /\ n_runs' = n_runs + 1
    /\ orch' = [orch EXCEPT ![n_runs + 1] = Spawned(new_date)]
    /\ UNCHANGED <<tasks, thumbnail_dir, main_pc>>

\* A date key that starts a run without looking at networking_complete.
DateChangeUnguarded(new_date) ==
    /\ main_pc = "mainloop"
    /\ StartRun(new_date)

\* Lines 214 and 232: a date key starts a run only once the last one was
\* seen Done.
DateChange(new_date) ==
    /\ main_pc = "mainloop"
    /\ networking_complete
    /\ StartRun(new_date)

\* Lines 209-226: Down, the next day.
KeyDown == DateChange(date + 1)

\* Lines 227-244: Up, the previous day.
KeyUp == DateChange(date - 1)

(***************************************************************************)
(* The program                                                             *)
(***************************************************************************)
Orchestrator ==
    \E r \in Runs :
        \/ CreateThumbnailDir(r)
        \/ CreateThumbnailDirFails(r)
        \/ GetScheduleErr(r)
        \/ GetScheduleOk(r)
        \/ Extract(r)
        \/ JoinAll(r)

Download ==
    \E r \in Runs : \E i \in TaskIds(r) :
        \/ GetImageOk(r, i)
        \/ GetImageErr(r, i)
        \/ WriteOk(r, i)
        \/ WriteErr(r, i)
        \/ InsertImage(r, i)

Consumer ==
    \/ DrainValues
    \/ DrainImages
    \/ Quit
    \/ KeyRight
    \/ KeyLeft
    \/ KeyDown
    \/ KeyUp

Next == Orchestrator \/ Download \/ Consumer

Spec == Init /\ [][Next]_vars

(***************************************************************************)
(* The restart procedure without main's guard: a caller that polls the     *)
(* state as main does, and at any time forces FetchingJson and invokes     *)
(* startup_procedure again on the same handle, as its interface allows.    *)
(***************************************************************************)
Supersede ==
    /\ main_pc = "mainloop"
    /\ \E new_date \in {date - 1, date + 1} : StartRun(new_date)

NextSupersede ==
    Orchestrator \/ Download \/ DrainValues \/ DrainImages \/ Supersede

SpecSupersede == Init /\ [][NextSupersede]_vars

(***************************************************************************)
(* The program under fair scheduling, in a session whose user neither      *)
(* quits nor presses a selection key: the tokio runtime keeps polling      *)
(* every spawned task, every awaited call (the schedule fetch, get_image,  *)
(* the file write) returns, and the main loop keeps iterating.             *)
(***************************************************************************)
NextFair ==
    Orchestrator \/ Download \/ DrainValues \/ DrainImages \/ KeyDown \/ KeyUp

Fairness ==
    /\ WF_vars(Orchestrator)
    /\ WF_vars(Download)
    /\ WF_vars(DrainValues \/ DrainImages)

SpecFair == Init /\ [][NextFair]_vars /\ Fairness

(***************************************************************************)
(* mlb-ui/src/networking.rs: the startup_procedure of the mlb-ui crate,    *)
(* spawned once by its main (mlb-ui/src/main.rs:296-300) for a fixed date. *)
(* It creates no directory; its fetch, extraction, get_image and file      *)
(* write (lines 20-68) read as those of take-home, and its main loop       *)
(* drains the state by the same four arms (mlb-ui/src/main.rs:329-355).    *)
(***************************************************************************)
MLB_UI_THUMBNAIL_PATH == "./assets/thumbnail/"

\* Line 66: format!("{}{}.png", THUMBNAIL_PATH, id).
MlbUiFilePath(id) == <<MLB_UI_THUMBNAIL_PATH, id, ".png">>

\* HashMap::insert(i, file_path): the entry of key i, replacing one there.
MapInsert(image_map, i, file_path) ==
    Append(SelectSeq(image_map, LAMBDA e : e[1] # i), <<i, file_path>>)

\* Line 18: the task enters startup_procedure at the fetch of the schedule.
InitMlbUi ==
    /\ network_state = FetchingJson
    /\ orch = [r \in Runs |->
                 IF r = 1
                 THEN [pc |-> "get_schedule", date |-> 0,
                       schedule |-> None, image_urls |-> <<>>]
                 ELSE Unspawned]
    /\ tasks = [r \in Runs |-> <<>>]
    /\ n_runs = 1
    /\ thumbnail_dir \in BOOLEAN
    /\ gfx_state = GfxNew
    /\ networking_complete = FALSE
    /\ date = 0
    /\ main_pc = "mainloop"

\* Lines 70-75: under the lock, image_map.insert(i, file_path) if the state
\* is FetchingImages; otherwise nothing.
InsertImageMlbUi(r, i) ==
    /\ MutexFree
    /\ Task(r, i).pc = "insert"
    /\ IF network_state.tag = "FetchingImages"
       THEN /\ network_state' =
                 [network_state EXCEPT
                    !.paths = MapInsert(@, i,
                                MlbUiFilePath(orch[r].image_urls[i + 1][1]))]
            /\ TaskStep(r, i, "done", "pushed")
       ELSE /\ UNCHANGED network_state
            /\ TaskStep(r, i, "done", "dropped")
    /\ UNCHANGED <<orch, n_runs, thumbnail_dir, gfx_state,
                   networking_complete, date, main_pc>>

\* Lines 81-89: after join_all, under the lock, the arm of FetchingImages is
\* empty and leaves the state as it is; any other state becomes Error.
\* Then the function returns.
JoinAllMlbUi(r) ==
    /\ MutexFree
    /\ orch[r].pc = "join_all"
    /\ AllTasksDone(r)
    /\ network_state' =
         IF network_state.tag = "FetchingImages"
         THEN network_state
         ELSE Error("Unexpected state transition")
    /\ orch' = [orch EXCEPT ![r] = Returned(orch[r].date)]
    /\ tasks' = [tasks EXCEPT ![r] = <<>>]
    /\ UNCHANGED <<n_runs, thumbnail_dir, gfx_state,
                   networking_complete, date, main_pc>>

OrchestratorMlbUi ==
    \/ GetScheduleErr(1)
    \/ GetScheduleOk(1)
    \/ Extract(1)
    \/ JoinAllMlbUi(1)

DownloadMlbUi ==
    \E i \in TaskIds(1) :
        \/ GetImageOk(1, i)
        \/ GetImageErr(1, i)
        \/ WriteOk(1, i)
        \/ WriteErr(1, i)
        \/ InsertImageMlbUi(1, i)

NextMlbUi == OrchestratorMlbUi \/ DownloadMlbUi \/ DrainValues \/ DrainImages

SpecMlbUi == InitMlbUi /\ [][NextMlbUi]_vars

(***************************************************************************)
(* Vocabulary of the properties                                            *)
(***************************************************************************)
Tag == network_state.tag

InRun == Tag \in {"FetchingImages", "Done"}

\* A step that stays within one run's FetchingImages / Done states.
SameRunStep ==
    /\ InRun
    /\ network_state'.tag \in {"FetchingImages", "Done"}
    /\ n_runs' = n_runs

\* A step of the main thread other than the start of a run: the orchestrators
\* and the futures stand still.
ConsumerStep == UNCHANGED <<orch, tasks>>

IsPrefix(s, t) == Len(s) <= Len(t) /\ SubSeq(t, 1, Len(s)) = s

Entries(paths) == {paths[k] : k \in 1..Len(paths)}

\* How many entries of paths carry index i.
Count(paths, i) == Cardinality({k \in 1..Len(paths) : paths[k][1] = i})

\* The indices whose texture the main thread has loaded from a file.
LoadedIdx(gfx) ==
    IF gfx.textures = None THEN {}
    ELSE {k - 1 : k \in {j \in 1..Len(gfx.textures[1]) :
                            gfx.textures[1][j] # StaticTexture}}

\* N of the run in progress: the items are in the shared state or, once
\* init has taken them, in the graphics state.
NItems == Len(network_state.items) + Len(gfx_state.item_metadata)

\* The step in which run r's orchestrator publishes Done.
ReachesDone(r) ==
    /\ orch[r].pc = "join_all"
    /\ orch'[r].pc = "returned"
    /\ network_state'.tag = "Done"

\* The step in which future i of run r runs lines 75-79.
InsertStep(r, i) ==
    /\ i \in TaskIds(r)
    /\ Task(r, i).pc = "insert"
    /\ (i + 1) \in DOMAIN tasks'[r]
    /\ tasks'[r][i + 1].pc = "done"

ConsumerReset ==
    /\ main_pc = "mainloop"
    /\ n_runs' = n_runs + 1
    /\ gfx_state' = reset(gfx_state)
    /\ ~networking_complete'

\* C2: the tag only moves FetchingJson -> FetchingImages -> Done or Error, or
\* FetchingJson -> Error; it becomes FetchingJson again only by the main
\* thread's date-change reset; and a run's first write of the state (the one
\* that ends its schedule fetch) happens while the state is FetchingJson.
C2_ForwardOnly ==
    [][/\ Tag # network_state'.tag =>
            \/ <<Tag, network_state'.tag>> \in
                  {<<"FetchingJson", "FetchingImages">>,
                   <<"FetchingJson", "Error">>,
                   <<"FetchingImages", "Done">>,
                   <<"FetchingImages", "Error">>}
            \/ network_state' = FetchingJson /\ ConsumerReset
       /\ \A r \in Runs :
            (/\ orch[r].pc \in {"get_schedule", "extract"}
             /\ orch'[r].pc \notin {"get_schedule", "extract"})
               => Tag = "FetchingJson"]_vars

\* The second run has gone all the way to Done after the reset.
C2_Witness == n_runs = 2 /\ Tag = "Done"

(***************************************************************************)
(* C3                                                                      *)
(***************************************************************************)
\* C3 as stated: while the state is FetchingImages, every entry of
\* partial_results present before a step is present after it.
C3_Monotone ==
    [][(SameRunStep /\ Tag = "FetchingImages"
            /\ network_state'.tag = "FetchingImages")
         => Entries(network_state.paths) \subseteq Entries(network_state'.paths)]_vars

\* C3 amended: while the state is FetchingImages, the orchestrator and the
\* download tasks only append to partial_results; entries leave it only by
\* the main thread's drain_images, which takes all of them out at once and,
\* unless it fails, loads each into the texture of its index.
C3_AppendOrDrain ==
    [][(SameRunStep /\ Tag = "FetchingImages"
            /\ network_state'.tag = "FetchingImages")
         => \/ IsPrefix(network_state.paths, network_state'.paths)
            \/ /\ ConsumerStep
               /\ network_state'.paths = <<>>
               /\ gfx_state'.textures # None
               /\ main_pc' = "mainloop" =>
                    \A e \in Entries(network_state.paths) :
                        gfx_state'.textures[1][e[1] + 1] = LoadedTexture(e[2])]_vars

\* Still FetchingImages, an entry already drained into a texture and a later
\* one waiting in partial_results.
C3_Witness ==
    /\ Tag = "FetchingImages"
    /\ LoadedIdx(gfx_state) # {}
    /\ network_state.paths # <<>>

(***************************************************************************)
(* C4                                                                      *)
(***************************************************************************)
\* C4 as stated: once placed into FetchingImages, the items of the shared
\* state are the same in every later state of the run.
C4_ItemsFrozen ==
    [][SameRunStep => network_state'.items = network_state.items]_vars

\* C4 amended: the orchestrator and the download tasks never change items,
\* and Done takes them over from FetchingImages as they are; the main
\* thread's first init of the run moves all of them out of the shared state
\* into its item_metadata, and from then on items is empty, in Done too.
C4_ItemsKeptOrTaken ==
    [][SameRunStep =>
         \/ network_state'.items = network_state.items
         \/ /\ ConsumerStep
            /\ gfx_state.textures = None
            /\ network_state'.items = <<>>
            /\ gfx_state'.item_metadata = network_state.items]_vars

\* Done that carries no item: the main thread took them during
\* FetchingImages.
C4_Witness ==
    /\ Tag = "Done"
    /\ network_state.items = <<>>
    /\ Len(gfx_state.item_metadata) = 2
    /\ ~networking_complete

(***************************************************************************)
(* C5                                                                      *)
(***************************************************************************)
\* C5 as stated: a step of the main thread other than the date-change reset
\* leaves the shared state as it is.
C5_ConsumerReadsOnly ==
    [][ConsumerStep => network_state' = network_state]_vars

\* C5 amended: a step of the main thread other than the date-change reset
\* leaves the tag and the error text unchanged and adds or alters no item and
\* no result; in FetchingImages and Done it takes all items out on its first
\* init and drains all results present, leaving them empty.
C5_ConsumerOnlyTakes ==
    [][ConsumerStep =>
         /\ network_state'.tag = Tag
         /\ network_state'.err = network_state.err
         /\ network_state'.items \in {network_state.items, <<>>}
         /\ network_state'.paths \in {network_state.paths, <<>>}
         /\ network_state' # network_state => InRun]_vars

\* The main thread has taken the items and drained a result, and the run is
\* still fetching.
C5_Witness ==
    /\ Tag = "FetchingImages"
    /\ network_state.items = <<>>
    /\ network_state.paths = <<>>
    /\ LoadedIdx(gfx_state) # {}

(***************************************************************************)
(* C6                                                                      *)
(***************************************************************************)
\* C6 as stated: in FetchingImages(items, partial_results),
\* len(partial_results) <= len(items) of that state.
C6_AtMostItemsHeld ==
    Tag = "FetchingImages" => Len(network_state.paths) <= Len(network_state.items)

\* C6 amended: in FetchingImages, len(partial_results) <= N, the number of
\* items extracted for the run (the length of the orchestrator's image_urls);
\* the items held in the state are those N or, once the main thread has taken
\* them, none.
C6_AtMostItemsExtracted ==
    Tag = "FetchingImages" =>
        /\ orch[n_runs].pc = "join_all"
        /\ Len(network_state.paths) <= Len(orch[n_runs].image_urls)
        /\ Len(network_state.items) \in {0, Len(orch[n_runs].image_urls)}

\* partial_results is full: both items of a run of two are recorded.
C6_Witness ==
    /\ Tag = "FetchingImages"
    /\ Len(orch[n_runs].image_urls) = 2
    /\ Len(network_state.paths) = 2

(***************************************************************************)
(* C7                                                                      *)
(***************************************************************************)
\* C7: no two entries of partial_results / results carry the same item
\* index: a download task never pushes an index that is already there.
C7_IndexAtMostOnce ==
    \A k1, k2 \in 1..Len(network_state.paths) :
        network_state.paths[k1][1] = network_state.paths[k2][1] => k1 = k2

\* Two entries recorded, the second item's before the first's.
C7_Witness ==
    /\ Len(network_state.paths) = 2
    /\ network_state.paths[1][1] = 1
    /\ network_state.paths[2][1] = 0

(***************************************************************************)
(* C8                                                                      *)
(***************************************************************************)
\* C8: a run's state becomes Done only in a step before which every one of
\* its download tasks has finished, and while the state is Done no download
\* task is in flight.
C8_DoneAfterAllTasks ==
    /\ [][\A r \in Runs : ReachesDone(r) => AllTasksDone(r)]_vars
    /\ [](Tag = "Done" =>
            \A r \in Runs : \A i \in TaskIds(r) : Task(r, i).pc = "done")

\* Done of a run of two items that both succeeded.
C8_Witness ==
    /\ Tag = "Done"
    /\ NItems = 2
    /\ Len(network_state.paths) + Cardinality(LoadedIdx(gfx_state)) = 2

(***************************************************************************)
(* C9                                                                      *)
(***************************************************************************)
\* C9: when the caller has restarted, a download task of a superseded run
\* (not the latest one spawned) never inserts into the shared state: its
\* write is discarded.
C9_StaleWriteDiscarded ==
    [][\A r \in Runs : \A i \in TaskIds(r) :
         (InsertStep(r, i) /\ r < n_runs) => network_state' = network_state]_vars

(***************************************************************************)
(* C10                                                                     *)
(***************************************************************************)
\* C10: a download task that finishes its file write and finds the state in
\* a variant other than FetchingImages leaves the shared state unchanged.
C10_NoOpOutsideFetchingImages ==
    [][\A r \in Runs : \A i \in TaskIds(r) :
         (InsertStep(r, i) /\ Tag # "FetchingImages")
            => network_state' = network_state]_vars

\* A download task has found another variant and dropped its entry.
C10_Witness ==
    \E r \in Runs : \E i \in TaskIds(r) :
        /\ Task(r, i).result = "dropped"
        /\ Tag \in {"FetchingJson", "Error", "Done"}

(***************************************************************************)
(* C11                                                                     *)
(***************************************************************************)
\* Run r is active: startup_procedure has been spawned and has neither
\* returned nor panicked.  Its download tasks exist only while it is.
Active(r) == orch[r].pc \in {"start", "get_schedule", "extract", "join_all"}

\* C11: in main, at most one run is active at any instant, no download task
\* belongs to a run that is not active, and a run is spawned only when the
\* main thread has seen Done of the previous run, which has returned.
C11_OneActiveRun ==
    /\ [](/\ Cardinality({r \in Runs : Active(r)}) <= 1
          /\ \A r \in Runs : tasks[r] # <<>> => Active(r))
    /\ [][n_runs' # n_runs =>
            /\ networking_complete
            /\ Tag = "Done"
            /\ orch[n_runs].pc = "returned"
            /\ \A r \in Runs : ~Active(r)]_vars

\* The second run is downloading, after the first has returned.
C11_Witness ==
    /\ n_runs = 2
    /\ orch[1].pc = "returned"
    /\ orch[2].pc = "join_all"
    /\ \E i \in TaskIds(2) : Task(2, i).pc = "write"

(***************************************************************************)
(* C12                                                                     *)
(***************************************************************************)
\* The step in which run r performs its first write of the shared state:
\* Error after the fetch or the extraction, or FetchingImages.
FirstWrite(r) ==
    /\ orch[r].pc \in {"get_schedule", "extract"}
    /\ orch'[r].pc \in {"returned", "join_all"}

\* Nothing of a run is held by the shared state or by the graphics state.
NothingHeld(state, gfx) ==
    /\ state = FetchingJson
    /\ gfx.textures = None
    /\ gfx.n_games = 0
    /\ gfx.item_metadata = <<>>

\* C12: the step that spawns a run after a date change leaves the graphics
\* state reset and the shared state FetchingJson, with the new run not yet
\* started; and when a run performs its first state write, the shared state
\* is FetchingJson and neither it nor the graphics state holds any item,
\* texture or result.
C12_FreshAtFirstWrite ==
    [][/\ n_runs' # n_runs =>
            /\ NothingHeld(network_state', gfx_state')
            /\ orch[n_runs'].pc = "unspawned"
            /\ orch'[n_runs'].pc = "start"
       /\ \A r \in Runs :
            FirstWrite(r) => NothingHeld(network_state, gfx_state)]_vars

\* The run spawned by a date change has published its items and the main
\* thread has built its textures anew.
C12_Witness ==
    /\ n_runs = 2
    /\ orch[2].pc = "join_all"
    /\ gfx_state.n_games = 2
    /\ date # 0

(***************************************************************************)
(* C13                                                                     *)
(***************************************************************************)
\* The shared state is the Error of a failed schedule fetch.
FetchFailed ==
    Tag = "Error" /\ network_state.err = "get_schedule_via_date failed"

\* C13: a run whose schedule fetch fails returns with Error(reason) as its
\* one state write and without a download task; from then on the shared
\* state stays that Error (never FetchingImages or Done), no run is active,
\* no download task exists and none takes a step (so no thumbnail is
\* written).
C13_FetchFailureOnlyWrite ==
    /\ [][\A r \in Runs :
            (orch[r].pc = "get_schedule" /\ orch'[r].pc = "returned") =>
               /\ Tag = "FetchingJson"
               /\ network_state'.tag = "Error"
               /\ tasks'[r] = <<>>]_vars
    /\ [](FetchFailed =>
            /\ \A r \in Runs : ~Active(r) /\ tasks[r] = <<>>)
    /\ [][FetchFailed =>
            /\ network_state' = network_state
            /\ tasks' = tasks
            /\ orch' = orch]_vars

\* The fetch of the run spawned by a date change has failed.
C13_Witness ==
    /\ FetchFailed
    /\ n_runs = 2
    /\ orch[2].pc = "returned"

(***************************************************************************)
(* C14                                                                     *)
(***************************************************************************)
\* The step in which run r extracts from the schedule it has received.
ExtractStep(r) == orch[r].pc = "extract" /\ orch'[r].pc # "extract"

\* The shared state is the Error of a schedule without a date bucket.
MissingMetadata ==
    Tag = "Error" /\ network_state.err = "Missing item_metadata data"

\* C14: the extraction step of a run ends in the missing-metadata Error
\* exactly when its schedule document has zero date buckets, and then the run
\* returns with no task; with one bucket or more the step publishes
\* FetchingImages, also when the bucket taken has no game with an editorial.
\* After the missing-metadata Error the state never changes.
C14_ErrorIffNoBucket ==
    /\ [][\A r \in Runs :
            ExtractStep(r) =>
               LET schedule == orch[r].schedule[1]
               IN  IF Len(schedule) = 0
                   THEN /\ network_state' = Error("Missing item_metadata data")
                        /\ orch'[r].pc = "returned"
                        /\ tasks'[r] = <<>>
                   ELSE /\ network_state'.tag = "FetchingImages"
                        /\ orch'[r].pc = "join_all"]_vars
    /\ [][MissingMetadata =>
            network_state' = network_state /\ tasks' = tasks]_vars

\* A run has ended in the missing-metadata Error.
C14_Witness ==
    /\ MissingMetadata
    /\ orch[n_runs].pc = "returned"
    /\ tasks[n_runs] = <<>>

(***************************************************************************)
(* C15                                                                     *)
(***************************************************************************)
\* Run r is past its extraction, which yielded no item (N = 0).
ZeroItemRun(r) == orch[r].pc = "join_all" /\ orch[r].image_urls = <<>>

\* C15: an extraction that yields zero items publishes
\* FetchingImages(empty, empty) and creates no download task; while that
\* run waits in join_all the state stays FetchingImages(empty, empty) and it
\* has no task (so no get_image and no file write happens); and the run's
\* next step publishes Done(empty, empty), never Error.
C15_ZeroItemsToDone ==
    /\ [][\A r \in Runs :
            (ExtractStep(r) /\ network_state'.tag = "FetchingImages"
                            /\ network_state'.items = <<>>) =>
               /\ Tag = "FetchingJson"
               /\ network_state' = FetchingImages(<<>>, <<>>)
               /\ ZeroItemRun(r)'
               /\ tasks'[r] = <<>>]_vars
    /\ [](\A r \in Runs :
            ZeroItemRun(r) =>
               network_state = FetchingImages(<<>>, <<>>) /\ tasks[r] = <<>>)
    /\ [][\A r \in Runs :
            (ZeroItemRun(r) /\ orch'[r] # orch[r]) =>
               /\ network_state' = Done(<<>>, <<>>)
               /\ orch'[r].pc = "returned"]_vars

\* Done(empty, empty) of a run without items, before the main thread has
\* looked at it.
C15_Witness ==
    /\ network_state = Done(<<>>, <<>>)
    /\ gfx_state = GfxNew
    /\ orch[n_runs].pc = "returned"

(***************************************************************************)
(* C16                                                                     *)
(***************************************************************************)
\* The items of the run in progress, by index: in the shared state or, once
\* init has taken them, in the graphics state.
RunItems == network_state.items \o gfx_state.item_metadata

\* Item i of the run in progress has no cut of the resolution downloaded.
LacksCanonical(i) == CANONICAL_RES \notin DOMAIN RunItems[i + 1].photos

FinishStep(r, i, result) ==
    /\ i \in TaskIds(r)
    /\ Task(r, i).pc # "done"
    /\ (i + 1) \in DOMAIN tasks'[r]
    /\ tasks'[r][i + 1] = [pc |-> "done", result |-> result]

\* C17: a download task that fails (get_image or the file write) changes
\* neither the shared state nor any other task; no step of a download task
\* changes the variant; and the fan-in of a run, whatever the results of its
\* tasks (missing url, failed download, failed write, success), publishes
\* Done, never Error.
C17_ItemFailureNotFatal ==
    [][\A r \in Runs :
         /\ \A i \in TaskIds(r) :
              (FinishStep(r, i, "get_image_failed") \/ FinishStep(r, i, "write_failed"))
                 => /\ network_state' = network_state
                    /\ orch' = orch
                    /\ \A j \in TaskIds(r) \ {i} : tasks'[r][j + 1] = Task(r, j)
         /\ (tasks'[r] # tasks[r] /\ orch'[r] = orch[r])
              => network_state'.tag = Tag
         /\ (orch[r].pc = "join_all" /\ orch'[r].pc # "join_all")
              => /\ Tag = "FetchingImages"
                 /\ network_state' = Done(network_state.items, network_state.paths)]_vars

\* Done of a run of two items that both had a url and both failed, in the
\* download or in the write: results is empty.
C17_Witness ==
    /\ Tag = "Done"
    /\ Len(RunItems) = 2
    /\ ~LacksCanonical(0)
    /\ ~LacksCanonical(1)
    /\ network_state.paths = <<>>
    /\ LoadedIdx(gfx_state) = {}

(***************************************************************************)
(* C18                                                                     *)
(***************************************************************************)
\* C18: when the download task of item i, with id d, has got its image and
\* written its file and finds the state FetchingImages, the one entry it
\* adds is (i, "./assets/thumbnails/" d ".png"): the path is made of the
\* item's id alone.
C18_PathFromId ==
    [][\A r \in Runs : \A i \in TaskIds(r) :
         (InsertStep(r, i) /\ Tag = "FetchingImages") =>
            /\ ~LacksCanonical(i)
            /\ network_state'.paths =
                  Append(network_state.paths,
                         <<i, <<"./assets/thumbnails/", RunItems[i + 1].id, ".png">>>>)
            /\ tasks'[r][i + 1].result = "pushed"]_vars

\* The item at index 0 is the second game of the second bucket (id 202): its
\* entry carries index 0 and the path of id 202.
C18_Witness ==
    /\ InRun
    /\ <<0, <<"./assets/thumbnails/", 202, ".png">>>> \in Entries(network_state.paths)

(***************************************************************************)
(* C19                                                                     *)
(***************************************************************************)
\* The game_pks of the games of a bucket that carry an editorial, in order.
EligiblePks(bucket) ==
    LET eligible == SelectSeq(bucket, LAMBDA game : game.editorial # None)
    IN  [k \in 1..Len(eligible) |-> eligible[k].game_pk]

\* The ids of a sequence of items, in order.
Ids(items) == [k \in 1..Len(items) |-> items[k].id]

\* C19 as stated: for a document of two or more buckets, the items placed
\* into FetchingImages are the eligible games of the first bucket.
C19_FirstBucketOnly ==
    [][\A r \in Runs :
         (ExtractStep(r) /\ Len(orch[r].schedule[1]) >= 2) =>
            /\ network_state'.tag = "FetchingImages"
            /\ Ids(network_state'.items) = EligiblePks(orch[r].schedule[1][1])]_vars

\* C19 amended: the items of a run are built from only one date bucket, the
\* last of the document: for a document of one or more buckets, the items
\* placed into FetchingImages are exactly the eligible games of the last
\* bucket.
C19_LastBucketOnly ==
    [][\A r \in Runs :
         (ExtractStep(r) /\ Len(orch[r].schedule[1]) >= 1) =>
            LET schedule == orch[r].schedule[1]
            IN  /\ network_state'.tag = "FetchingImages"
                /\ Ids(network_state'.items) = EligiblePks(schedule[Len(schedule)])
                /\ \A k \in 1..Len(network_state'.items) :
                     \A b \in 1..(Len(schedule) - 1) :
                        \A g \in 1..Len(schedule[b]) :
                           network_state'.items[k].id # schedule[b][g].game_pk]_vars

\* The items in FetchingImages are the two games of the second bucket of a
\* two-bucket document.
C19_Witness ==
    /\ Tag = "FetchingImages"
    /\ Ids(RunItems) = <<GamePk(2, 1), GamePk(2, 2)>>

(***************************************************************************)
(* C20                                                                     *)
(***************************************************************************)
\* C20: the items a run extracts from the bucket it takes are exactly that
\* bucket's games with editorial content, in their order in the bucket, each
\* with id = game_pk and with the srcs of its cuts as photos; a game without
\* editorial content gets no index, no url and no download task, so N (the
\* number of items, of urls and of tasks) is the number of games with
\* editorial content.
C20_EditorialGamesInOrder ==
    [][\A r \in Runs :
         (ExtractStep(r) /\ Len(orch[r].schedule[1]) >= 1) =>
            LET bucket == Last(orch[r].schedule[1])
                items == network_state'.items
                N == Cardinality({g \in 1..Len(bucket) : bucket[g].editorial # None})
            IN  /\ Ids(items) = EligiblePks(bucket)
                /\ Len(items) = N
                /\ Len(orch'[r].image_urls) = N
                /\ Len(tasks'[r]) = N
                /\ \A k \in 1..N :
                     /\ orch'[r].image_urls[k][1] = items[k].id
                     /\ \E g \in 1..Len(bucket) :
                          /\ bucket[g].game_pk = items[k].id
                          /\ bucket[g].editorial # None
                          /\ DOMAIN items[k].photos = DOMAIN bucket[g].editorial[1]]_vars

\* The bucket's first game had no editorial: the one item of the run is its
\* second game, at index 0.
C20_Witness ==
    /\ orch[n_runs].pc = "join_all"
    /\ Len(orch[n_runs].image_urls) = 1
    /\ orch[n_runs].image_urls[1][1] = GamePk(1, 2)
    /\ Len(RunItems) = 1

(***************************************************************************)
(* C21                                                                     *)
(***************************************************************************)
\* Future i of run r got every response it asked for: it had a url, and
\* get_image and the file write returned Ok.
AllResponsesOk(r, i) ==
    Task(r, i).result \notin {"no_url", "get_image_failed", "write_failed"}

\* The outcome set the responses of run r determine: one (index, path of the
\* item's id) for each future whose responses were all Ok.
OutcomeOfResponses(r) ==
    {<<i, <<"./assets/thumbnails/", RunItems[i + 1].id, ".png">>>> :
        i \in {j \in TaskIds(r) : AllResponsesOk(r, j)}}

\* The entries the main thread has drained: (index, path of the file its
\* texture was loaded from).
DrainedEntries(gfx) == {<<i, gfx.textures[1][i + 1][2]>> : i \in LoadedIdx(gfx)}

\* C21 as stated: the outcome set of the Done state a run reaches is
\* determined by the responses alone (so two runs with the same responses
\* reach Done states with equal outcome sets).
C21_DoneSetByResponses ==
    [][\A r \in Runs :
         ReachesDone(r) =>
            Entries(network_state'.paths) = OutcomeOfResponses(r)]_vars

\* C21 amended: for every run, the first and the one after a date change
\* alike, the entries of the Done state it reaches together with the entries
\* the main thread has drained before are determined by the responses
\* alone: exactly the indices whose responses were all Ok, each with the
\* path of its item's id, none of them twice; so two runs from a clean state
\* with the same responses end with equal sets.
C21_OutcomeSetByResponses ==
    [][\A r \in Runs :
         ReachesDone(r) =>
            /\ Entries(network_state'.paths) \cup DrainedEntries(gfx_state)
                  = OutcomeOfResponses(r)
            /\ Entries(network_state'.paths) \cap DrainedEntries(gfx_state) = {}
            /\ Len(network_state'.paths) = Cardinality(Entries(network_state'.paths))]_vars

\* The run after a date change has reached Done with both its entries, one
\* still in results and one drained before.
C21_Witness ==
    /\ n_runs = 2
    /\ Tag = "Done"
    /\ Len(network_state.paths) = 1
    /\ Cardinality(LoadedIdx(gfx_state)) = 1

(***************************************************************************)
(* C22                                                                     *)
(***************************************************************************)
\* C22: a run is past its first step (at the schedule fetch, the extraction
\* or the fan-out) only with the thumbnail directory in place, so the
\* directory exists whenever a download task is at its file write; and the
\* step that creates it leaves an existing directory as it is, for the
\* first run and for every later one.
C22_DirBeforeWrite ==
    /\ [](\A r \in Runs :
            /\ orch[r].pc \in {"get_schedule", "extract", "join_all"} => thumbnail_dir
            /\ \A i \in TaskIds(r) :
                 Task(r, i).pc \in {"write", "insert"} => thumbnail_dir)
    /\ [][thumbnail_dir => thumbnail_dir']_vars
    /\ [][\A r \in Runs :
            (orch[r].pc = "start" /\ orch'[r].pc = "get_schedule")
               => thumbnail_dir']_vars

\* A download task of the second run is at its file write.
C22_Witness ==
    /\ n_runs = 2
    /\ thumbnail_dir
    /\ \E i \in TaskIds(2) : Task(2, i).pc = "write"
    /\ network_state.paths # <<>>

(***************************************************************************)
(* C23                                                                     *)
(***************************************************************************)
\* The positions at which the main thread reads files from disk.
MainIoPositions == {"load_texture"}

\* C23: nobody holds the mutex while performing network or disk I/O.  The
\* orchestrator and the download tasks hold it only within one in-memory
\* step; for the main thread: it is not at load_texture while it holds the
\* guard, and a download task that has written its file, or an orchestrator
\* whose futures have all finished, is never kept from the lock by the main
\* thread loading files.
C23_NoIoUnderLock ==
    /\ LockHolder = "main" => main_pc \notin MainIoPositions
    /\ main_pc \in MainIoPositions =>
          /\ \A r \in Runs : \A i \in TaskIds(r) : Task(r, i).pc # "insert"
          /\ \A r \in Runs : ~(orch[r].pc = "join_all" /\ AllTasksDone(r))

(***************************************************************************)
(* C24                                                                     *)
(***************************************************************************)
\* The entries the futures of run r have pushed so far, whatever the order.
PushedEntries(r) ==
    {<<i, <<"./assets/thumbnails/", RunItems[i + 1].id, ".png">>>> :
        i \in {j \in TaskIds(r) : Task(r, j).result = "pushed"}}

\* C24 as stated: whatever the order in which the download tasks complete,
\* the entries of the Done state are the same set: one entry for each task
\* that pushed.
C24_DoneSetSameInEveryOrder ==
    [][\A r \in Runs :
         ReachesDone(r) => Entries(network_state'.paths) = PushedEntries(r)]_vars

\* C24 amended: an insert adds its own entry to the set of entries and changes
\* no other entry, whatever is already there; so in every interleaving of the
\* download tasks, while the run waits for its futures, the set of entries
\* recorded (in the state or already drained by the main thread) is the set
\* of futures that have pushed, each at most once, and the Done state
\* takes over the collection as it is: the set does not depend on the order
\* of completion, only the order of the entries does.
C24_InsertsCommute ==
    /\ [][\A r \in Runs : \A i \in TaskIds(r) :
            (InsertStep(r, i) /\ Tag = "FetchingImages") =>
               /\ Entries(network_state'.paths) =
                     Entries(network_state.paths) \cup
                     {<<i, <<"./assets/thumbnails/", RunItems[i + 1].id, ".png">>>>}
               /\ Len(network_state'.paths) = Len(network_state.paths) + 1]_vars
    /\ [](\A r \in Runs :
            (orch[r].pc = "join_all" /\ ProcessAlive) =>
               /\ Entries(network_state.paths) \cup DrainedEntries(gfx_state)
                     = PushedEntries(r)
               /\ Len(network_state.paths) = Cardinality(Entries(network_state.paths)))
    /\ [][\A r \in Runs :
            ReachesDone(r) => network_state'.paths = network_state.paths]_vars

\* Done whose results hold the entry of index 1 before the entry of index 0:
\* the second item's task finished first.
C24_Witness ==
    /\ Tag = "Done"
    /\ Len(network_state.paths) = 2
    /\ network_state.paths[1][1] = 1
    /\ network_state.paths[2][1] = 0
    /\ gfx_state.textures = None

(***************************************************************************)
(* C25                                                                     *)
(***************************************************************************)
\* The step in which run r passes its fan-in point and returns.
FanInStep(r) == orch[r].pc = "join_all" /\ orch'[r].pc = "returned"

\* C25: at the fan-in step of a run all its download tasks have finished;
\* if the state is then FetchingImages the step publishes Done with the
\* items and results the state holds; in any other variant it publishes
\* Error("unexpected state transition"), not Done.
C25_FanInDoneOrError ==
    [][\A r \in Runs :
         FanInStep(r) =>
            /\ AllTasksDone(r)
            /\ IF Tag = "FetchingImages"
               THEN network_state' = Done(network_state.items, network_state.paths)
               ELSE network_state' = Error("unexpected state transition")]_vars

\* A run found the state forced back to FetchingJson at its fan-in point and
\* has published the Error.
C25_Witness ==
    /\ Tag = "Error"
    /\ network_state.err = "unexpected state transition"
    /\ n_runs = 2
    /\ orch[1].pc = "returned"

(***************************************************************************)
(* C26                                                                     *)
(***************************************************************************)
\* C26: a write of Done or Error is the last step of the run that makes it:
\* in that step the run returns, with every download task finished and
\* dropped; a run that has returned takes no step and has no task (so
\* neither its orchestrator nor a task of it writes the state again); and
\* while the state is Done or Error only the main thread changes it.
C26_TerminalWriteIsLast ==
    /\ [][(network_state'.tag \in {"Done", "Error"} /\ network_state'.tag # Tag) =>
            \E r \in Runs :
               /\ orch[r].pc # "returned"
               /\ AllTasksDone(r)
               /\ orch'[r].pc = "returned"
               /\ tasks'[r] = <<>>]_vars
    /\ [][\A r \in Runs :
            orch[r].pc = "returned" =>
               /\ tasks[r] = <<>>
               /\ orch'[r] = orch[r]
               /\ tasks'[r] = tasks[r]]_vars
    /\ [][(Tag \in {"Done", "Error"} /\ network_state' # network_state) =>
            /\ ConsumerStep \/ ConsumerReset
            /\ network_state'.tag \in {Tag, "FetchingJson"}]_vars

\* The only run has returned after its Done, which the main thread has then
\* seen and drained.
C26_Witness ==
    /\ Tag = "Done"
    /\ n_runs = 1
    /\ orch[1].pc = "returned"
    /\ networking_complete
    /\ LoadedIdx(gfx_state) # {}

(***************************************************************************)
(* C27                                                                     *)
(***************************************************************************)
\* Run r is the latest run, it has returned in a terminal state, and the
\* main thread has seen that state: Done (networking_complete) or Error
\* (break 'mainloop).
TerminalObserved(r) ==
    /\ n_runs = r
    /\ orch[r].pc = "returned"
    /\ \/ Tag = "Done" /\ networking_complete
       \/ Tag = "Error" /\ main_pc = "break"

\* The main thread has ended on a failure of drain_images.
ConsumerFailed == main_pc \in {"err", "panic"}

C28_MlbUiFanInDone ==
    [][FanInStep(1) /\ Tag = "FetchingImages"
         => network_state' = Done(network_state.items, network_state.paths)]_vars

(***************************************************************************)
(* C29                                                                     *)
(***************************************************************************)
\* The entries accounted for: waiting in the shared state or drained into a
\* texture by the main thread.
Accounted(state, gfx) == Entries(state.paths) \cup DrainedEntries(gfx)

\* The step in which future i of run r pushes its entry.
PushStep(r, i) == InsertStep(r, i) /\ tasks'[r][i + 1].result = "pushed"

\* The main thread has not failed in this step.
ConsumerGoesOn == main_pc' \in {"mainloop", "load_texture"}

\* C29  Exactly-once delivery to the consumer: every (index, path) entry a
\* download task pushes during a run is drained by the consumer loop exactly
\* once by the time it sets networking_complete for that run.  No entry is
\* at once waiting and drained; the move to Done keeps the entries as they
\* are; a push adds its one new entry to those accounted for and every
\* other step of a run, the drains included, keeps them the same; and when
\* the consumer sets networking_complete nothing is left waiting, so all of
\* them have been drained.
C29_ExactlyOnce ==
    /\ [](Entries(network_state.paths) \cap DrainedEntries(gfx_state) = {})
    /\ [][/\ \A r \in Runs :
               ReachesDone(r) => network_state'.paths = network_state.paths
          /\ (SameRunStep /\ ConsumerGoesOn) =>
               IF \E r \in Runs : \E i \in TaskIds(r) : PushStep(r, i)
               THEN \E r \in Runs : \E i \in TaskIds(r) :
                      /\ PushStep(r, i)
                      /\ ImagePath(r, i) \notin Accounted(network_state, gfx_state)
                      /\ Accounted(network_state', gfx_state') =
                           Accounted(network_state, gfx_state) \cup {ImagePath(r, i)}
               ELSE Accounted(network_state', gfx_state') =
                      Accounted(network_state, gfx_state)
          /\ (~networking_complete /\ networking_complete') =>
               /\ network_state'.tag = "Done"
               /\ network_state'.paths = <<>>
               /\ DrainedEntries(gfx_state') = Accounted(network_state, gfx_state)
         ]_vars

\* The consumer has set networking_complete for a run of two items whose
\* two entries it drained, and nothing waits in the state.
C29_Witness ==
    /\ networking_complete
    /\ Tag = "Done"
    /\ network_state.paths = <<>>
    /\ Cardinality(DrainedEntries(gfx_state)) = 2

(***************************************************************************)
(* C30                                                                     *)
(***************************************************************************)
\* The indices of the entries visible to the consumer: waiting in the shared
\* state or already loaded.
VisibleIdx == {e[1] : e \in Entries(network_state.paths)} \cup LoadedIdx(gfx_state)

\* C30  Publish after persist: a path becomes visible in partial_results
\* only after the file write for that item has completed successfully, so
\* the consumer never loads a texture from a path whose file is unwritten or
\* still being written by the current run.  While the futures of a run
\* live, the future of every visible index has finished having pushed (it
\* is not before or in its write); an entry is added only by the future of
\* its index standing after its write, and a future gets there only by its
\* write returning Ok.
C30_PublishAfterPersist ==
    /\ [](\A r \in Runs : \A i \in TaskIds(r) :
            i \in VisibleIdx =>
               /\ Task(r, i).pc = "done"
               /\ Task(r, i).result = "pushed")
    /\ [][/\ \A k \in 1..Len(network_state'.paths) :
               LET e == network_state'.paths[k]
               IN  (n_runs' = n_runs /\
                    Count(network_state'.paths, e[1]) >
                      Count(network_state.paths, e[1])) =>
                      \E r \in Runs :
                         /\ e[1] \in TaskIds(r)
                         /\ Task(r, e[1]).pc = "insert"
                         /\ e = ImagePath(r, e[1])
          /\ \A r \in Runs : \A i \in TaskIds(r) :
               (/\ Task(r, i).pc # "insert"
                /\ (i + 1) \in DOMAIN tasks'[r]
                /\ tasks'[r][i + 1].pc = "insert") =>
                    /\ Task(r, i).pc = "write"
                    /\ thumbnail_dir
         ]_vars

\* The main thread has loaded the texture of one item, whose future has
\* pushed, while the future of the other item is still writing its file.
C30_Witness ==
    \E r \in Runs : \E i, j \in TaskIds(r) :
        /\ Task(r, i).result = "pushed"
        /\ LoadedIdx(gfx_state) = {i}
        /\ Task(r, j).pc = "write"

(***************************************************************************)
(* C31                                                                     *)
(***************************************************************************)
\* A step in which the main thread, handling a Left or Right key with the
\* shared state other than FetchingJson, calls selection_left or
\* selection_right: the selection moves or the call panics.
SelectionCall ==
    /\ main_pc = "mainloop"
    /\ Tag # "FetchingJson"
    /\ n_runs' = n_runs
    /\ \/ main_pc' = "panic"
       \/ gfx_state'.selection # gfx_state.selection

\* C31  Whenever the consumer handles a Left or Right key and calls
\* selection_left or selection_right, the graphics state has been
\* initialised with n_games >= 1, so the modulo by n_games and the
\* n_games - 1 subtraction never fault, in every interleaving with the
\* orchestrator and for runs with N = 0.
C31_SelectionNeverFaults ==
    [][SelectionCall =>
         /\ gfx_state.textures # None
         /\ gfx_state.n_games >= 1
         /\ main_pc' # "panic"]_vars

(***************************************************************************)
(* C32                                                                     *)
(***************************************************************************)
\* The step of the main thread through the loop of drain_images.
DrainStep == main_pc = "load_texture" /\ main_pc' # "load_texture"

\* C32  Every time the consumer drains an entry (i, path), its textures
\* vector is initialised and i is less than its length: the consumer has
\* initialised from the items of the same run before draining, across
\* restarts and under any interleaving, so the texture index is never out
\* of bounds.  At the loop of drain_images the textures are there, one for
\* each item of the run, the items the graphics state holds are those the
\* run extracted, every entry's index is below the length, and the loop
\* does not panic.
C32_DrainIndexInBounds ==
    [][DrainStep =>
         /\ gfx_state.textures # None
         /\ Len(gfx_state.textures[1]) = Len(gfx_state.item_metadata)
         /\ network_state.items = <<>>
         /\ \A r \in Runs :
              orch[r].pc = "join_all" =>
                 Ids(gfx_state.item_metadata) =
                    [k \in 1..Len(orch[r].image_urls) |-> orch[r].image_urls[k][1]]
         /\ \A e \in Entries(network_state.paths) :
              e[1] < Len(gfx_state.textures[1])
         /\ main_pc' # "panic"]_vars

\* In the second run the main thread has drained the entry of index 1 into
\* its texture.
C32_Witness ==
    /\ n_runs = 2
    /\ main_pc = "mainloop"
    /\ 1 \in LoadedIdx(gfx_state)


====
